---- MODULE Spec2Model ----
(***************************************************************************)
(* BaseCdcService (src/src/services/base-cdc.service.ts): the change data  *)
(* capture engine.  The engine's fields are the state; every action is one *)
(* run of the engine's code from one await to the next (JavaScript runs a  *)
(* callback to its next await without interleaving).  The store (the       *)
(* change stream) and the callers of start()/stop() are the environment.   *)
(***************************************************************************)
EXTENDS Integers, Sequences, FiniteSets, TLC

\* ---------------------------------------------------------------- bounds
MaxStreams == 1        \* streams the store keeps alive at one time
MaxTasks == 2          \* async calls of the engine suspended at one time
NumHandlers == 1       \* distinct handler objects
MaxTokens == 2         \* changes that carry a token, in one behaviour
MaxAttemptsOpt == 2    \* largest configured maxReconnectAttempts
AttemptsCap == 3       \* cap of the attempt counter when retries are unlimited
ReconnectDelay == 1    \* cdcOptions.reconnectDelay, in clock ticks
StoreStreams == 2      \* streams the store keeps alive, in SpecStreams
DispatchHandlers == 2  \* distinct handler objects, in SpecDispatch

Null == 0                      \* null / undefined
CfgToken == MaxTokens + 1      \* a resumeAfter supplied in the options
CfgTime == MaxTokens + 2       \* a startAtOperationTime supplied in the options
Handlers == 1 .. NumHandlers

\* onError and onClose are optional members of a handler; odd handlers have
\* them, even handlers only have onEvent.
HasOnEvent(h) == TRUE
HasOnError(h) == h % 2 = 1
HasOnClose(h) == h % 2 = 1

VARIABLES
  watching,           \* this.watching
  changeStream,       \* this.changeStream: a stream of the store, or Null
  resumeToken,        \* this.resumeToken
  reconnectAttempts,  \* this.reconnectAttempts
  cdcOptions,         \* this.cdcOptions
  handlers,           \* this.handlers, in registration order
  streams,            \* the store: each stream is none, open or closing
  lastTokSent,        \* the store: token of the latest change that had one
  tasks,              \* the async calls suspended at an await, oldest first
  last                \* the step just taken

vars == <<watching, changeStream, resumeToken, reconnectAttempts, cdcOptions,
          handlers, streams, lastTokSent, tasks, last>>

\* ------------------------------------------------------------ pure helpers
isWatching == watching

getResumeToken == resumeToken

\* Options after the constructor has applied the defaults: any value the
\* caller passed overrides the default.
applyDefaultOptions ==
  [autoReconnect : BOOLEAN,
   maxReconnectAttempts : 0 .. MaxAttemptsOpt,
   resumeAfter : {Null, CfgToken},
   startAtOperationTime : {Null, CfgTime}]

\* The options of a caller that configured no starting timestamp
\* (startAtOperationTime is optional).
NoStartTime == {o \in applyDefaultOptions : o.startAtOperationTime = Null}

\* shouldReconnect that compares with <= instead of <.
shouldReconnectInclusive(opts, attempts) ==
  LET maxAttempts == opts.maxReconnectAttempts
  IN  maxAttempts = 0 \/ attempts <= maxAttempts

\* shouldReconnect that takes maxReconnectAttempts = 0 for a budget of zero.
shouldReconnectZeroBudget(opts, attempts) ==
  attempts < opts.maxReconnectAttempts

shouldReconnect(opts, attempts) ==
  LET maxAttempts == opts.maxReconnectAttempts
  IN  maxAttempts = 0 \/ attempts < maxAttempts

\* for (const handler of this.handlers): the array iterator keeps an index
\* and looks at the live array; NextWith is the first index after `from'
\* whose handler has the optional member, 0 when the loop is over.
Has(h, member) ==
  IF member = "onEvent" THEN HasOnEvent(h)
  ELSE IF member = "onError" THEN HasOnError(h)
  ELSE HasOnClose(h)

NextWith(member, from) ==
  LET S == {i \in (from + 1) .. Len(handlers) : Has(handlers[i], member)}
  IN  IF S = {} THEN 0 ELSE CHOOSE i \in S : \A j \in S : i <= j

\* A suspended async call: the signal or call that began it (kind), the
\* await it is suspended at (pc), the position of its handler loop (idx),
\* the token of its change (tok), the time its timer has run (elapsed), the
\* stream whose close() it awaits (stream).  `stop' relates the call to the
\* caller's latest stop(), as long as no start() was called after it:
\* "caused" for the stop() call itself and for the processing of the close
\* signal its close() made the stream emit, "during" when stop() was called
\* while the call was in its reconnect wait, "no" otherwise.  `got' lists
\* the handlers whose callback the running handler loop has called so far,
\* `whole' holds the handlers that have been registered ever since the
\* signal arrived (or the hook threw), `gone' the handlers that were not in the registry when
\* the change arrived and have not been registered since, `opens' counts the
\* model.watch() calls that reconnect() has made since the signal,
\* `operationType' is the type of its change and `hook' the operation hook
\* that handleChange called for it.
NewTask(kind, tok) ==
  [kind |-> kind, pc |-> "new", idx |-> 0, tok |-> tok, elapsed |-> 0,
   stream |-> Null, stop |-> "no", got |-> <<>>, whole |-> {}, gone |-> {},
   opens |-> 0, operationType |-> Null, hook |-> "none"]

\* The handlers in the registry.
Registered == {handlers[k] : k \in 1 .. Len(handlers)}

\* The handler objects that are not in the registry.
NotRegistered == (Handlers \cup (1 .. DispatchHandlers)) \ Registered

HasRoom == Len(tasks) < MaxTasks

Without(i) == [j \in 1 .. Len(tasks) - 1 |-> IF j < i THEN tasks[j] ELSE tasks[j + 1]]

\* The store issues a new token with each change: tokens are opaque and
\* only compared, the k-th one issued is written k.
FreshToken == lastTokSent + 1

FreeStreams == {s \in DOMAIN streams : streams[s] = "none"}

NewStream == CHOOSE s \in FreeStreams : \A j \in FreeStreams : s <= j

\* The stream s is gone: a close() awaited on it has nothing left to fail.
Released(ts, s) ==
  [j \in 1 .. Len(ts) |->
     IF ts[j].stream = s THEN [ts[j] EXCEPT !.stream = Null] ELSE ts[j]]

\* The step just taken: the operation, whether it threw to its caller,
\* the driver call it made ("watch", "close" or "none"), the resumeAfter
\* a watch call asked for, and the handler a registry call was given.
Step(op, threw) ==
  [op |-> op, threw |-> threw, called |-> "none", resumeAfter |-> Null,
   startAtOperationTime |-> Null, h |-> Null]

Opened(op, r) ==
  [op |-> op, threw |-> r.threw,
   called |-> IF r.opened THEN "watch" ELSE "none",
   resumeAfter |-> r.resumeAfter,
   startAtOperationTime |-> r.startAtOperationTime, h |-> Null]

\* ------------------------------------------------------------------ start
\* start() without the guard of lines 78-81.
startUnguarded(opts, ok) ==
  IF ok /\ FreeStreams # {}
  THEN [opened |-> TRUE, threw |-> FALSE,
        resumeAfter |-> opts.resumeAfter,
        startAtOperationTime |-> opts.startAtOperationTime,
        watching |-> TRUE, changeStream |-> NewStream,
        reconnectAttempts |-> 0,
        streams |-> [streams EXCEPT ![NewStream] = "open"]]
  ELSE [opened |-> TRUE, threw |-> TRUE,
        resumeAfter |-> opts.resumeAfter,
        startAtOperationTime |-> opts.startAtOperationTime,
        watching |-> watching, changeStream |-> changeStream,
        reconnectAttempts |-> reconnectAttempts, streams |-> streams]

\* start() with `this.watching = true' moved before the model.watch() call.
startWatchingEarly(opts, ok) ==
  IF watching
  THEN [opened |-> FALSE, threw |-> FALSE, resumeAfter |-> Null,
        startAtOperationTime |-> Null,
        watching |-> watching, changeStream |-> changeStream,
        reconnectAttempts |-> reconnectAttempts, streams |-> streams]
  ELSE IF ok
       THEN [opened |-> TRUE, threw |-> FALSE,
             resumeAfter |-> opts.resumeAfter,
             startAtOperationTime |-> opts.startAtOperationTime,
             watching |-> TRUE, changeStream |-> NewStream,
             reconnectAttempts |-> 0,
             streams |-> [streams EXCEPT ![NewStream] = "open"]]
       ELSE [opened |-> TRUE, threw |-> TRUE,
             resumeAfter |-> opts.resumeAfter,
             startAtOperationTime |-> opts.startAtOperationTime,
             watching |-> TRUE, changeStream |-> changeStream,
             reconnectAttempts |-> reconnectAttempts, streams |-> streams]

\* start() has no await: it runs in one step.  `ok' is whether model.watch()
\* returns a stream or throws.  The result is the engine's new fields.
start(opts, ok) ==
  IF watching
  THEN [opened |-> FALSE, threw |-> FALSE, resumeAfter |-> Null,
        startAtOperationTime |-> Null,
        watching |-> watching, changeStream |-> changeStream,
        reconnectAttempts |-> reconnectAttempts, streams |-> streams]
  ELSE IF ok
       THEN [opened |-> TRUE, threw |-> FALSE,
             resumeAfter |-> opts.resumeAfter,
             startAtOperationTime |-> opts.startAtOperationTime,
             watching |-> TRUE, changeStream |-> NewStream,
             reconnectAttempts |-> 0,
             streams |-> [streams EXCEPT ![NewStream] = "open"]]
       ELSE [opened |-> TRUE, threw |-> TRUE,
             resumeAfter |-> opts.resumeAfter,
             startAtOperationTime |-> opts.startAtOperationTime,
             watching |-> watching, changeStream |-> changeStream,
             reconnectAttempts |-> reconnectAttempts, streams |-> streams]

Start ==
  \E ok \in BOOLEAN :
    /\ ok => (watching \/ FreeStreams # {})
    /\ LET r == start(cdcOptions, ok)
       IN  /\ watching' = r.watching
           /\ changeStream' = r.changeStream
           /\ reconnectAttempts' = r.reconnectAttempts
           /\ streams' = r.streams
           /\ last' = Opened("start", r)
    /\ tasks' = [j \in 1 .. Len(tasks) |-> [tasks[j] EXCEPT !.stop = "no"]]
    /\ UNCHANGED <<resumeToken, cdcOptions, handlers, lastTokSent>>

\* ------------------------------------------------------------------- stop
\* stop() without the guard of lines 133-136.
stopUnguarded ==
  IF changeStream # Null
  THEN [closed |-> changeStream, watching |-> watching]
  ELSE [closed |-> Null, watching |-> FALSE]

\* stop() that drops the flag and never calls changeStream.close().
stopWithoutClose ==
  IF ~watching
  THEN [closed |-> Null, watching |-> watching]
  ELSE [closed |-> Null, watching |-> FALSE]

\* stop() up to its await of changeStream.close().
stop ==
  IF ~watching
  THEN [closed |-> Null, watching |-> watching]
  ELSE IF changeStream # Null
       THEN [closed |-> changeStream, watching |-> watching]
       ELSE [closed |-> Null, watching |-> FALSE]

Stop ==
  LET r == stop
  IN  /\ r.closed # Null => HasRoom
      /\ watching' = r.watching
      /\ streams' = IF r.closed # Null /\ streams[r.closed] = "open"
                    THEN [streams EXCEPT ![r.closed] = "closing"]
                    ELSE streams
      /\ LET seen == [j \in 1 .. Len(tasks) |->
                        IF tasks[j].pc = "wait"
                        THEN [tasks[j] EXCEPT !.stop = "during"]
                        ELSE tasks[j]]
         IN  tasks' = IF r.closed # Null
                      THEN Append(seen, [NewTask("stop", Null) EXCEPT
                                           !.pc = "closing", !.stream = r.closed,
                                           !.stop = "caused"])
                      ELSE seen
      /\ last' = [Step("stop", FALSE) EXCEPT
                    !.called = IF r.closed # Null THEN "close" ELSE "none"]
      /\ UNCHANGED <<changeStream, resumeToken, reconnectAttempts, cdcOptions,
                     handlers, lastTokSent>>

\* stop() that also forgets the resume position when it releases the stream.
StopResolveForgetting(i) ==
  /\ tasks[i].pc = "closing"
  /\ changeStream' = Null
  /\ resumeToken' = Null
  /\ watching' = FALSE
  /\ streams' = IF tasks[i].stream # Null
                THEN [streams EXCEPT ![tasks[i].stream] = "none"]
                ELSE streams
  /\ tasks' = Released(Without(i), tasks[i].stream)
  /\ last' = Step("stopReturn", FALSE)
  /\ UNCHANGED <<reconnectAttempts, cdcOptions, handlers, lastTokSent>>

\* stop() after changeStream.close() resolved (lines 141-144).  A closed
\* stream emits 'close' before close() resolves, or never.
StopResolve(i) ==
  /\ tasks[i].pc = "closing"
  /\ changeStream' = Null
  /\ watching' = FALSE
  /\ streams' = IF tasks[i].stream # Null
                THEN [streams EXCEPT ![tasks[i].stream] = "none"]
                ELSE streams
  /\ tasks' = Released(Without(i), tasks[i].stream)
  /\ last' = Step("stopReturn", FALSE)
  /\ UNCHANGED <<resumeToken, reconnectAttempts, cdcOptions, handlers,
                 lastTokSent>>

\* stop() when changeStream.close() rejected: logged and rethrown.  The
\* stream was not closed.
StopReject(i) ==
  /\ tasks[i].pc = "closing"
  /\ tasks[i].stream # Null
  /\ streams' = IF \E j \in 1 .. Len(tasks) :
                     j # i /\ tasks[j].stream = tasks[i].stream
                THEN streams
                ELSE [streams EXCEPT ![tasks[i].stream] = "open"]
  /\ tasks' = Without(i)
  /\ last' = Step("stopReturn", TRUE)
  /\ UNCHANGED <<watching, changeStream, resumeToken, reconnectAttempts,
                 cdcOptions, handlers, lastTokSent>>

\* --------------------------------------------------------------- registry
\* registerHandler without the includes() test of line 162.
registerHandlerTwice(h) == Append(handlers, h)

registerHandler(h) ==
  IF \E i \in 1 .. Len(handlers) : handlers[i] = h
  THEN handlers
  ELSE Append(handlers, h)

\* unregisterHandler that finds no index and removes nothing.
unregisterHandlerKeeping(h) == handlers

\* indexOf (line 172) gives the first position of h, here 0 when there is
\* none; splice(index, 1) removes that one element (lines 173-175).
unregisterHandler(h) ==
  LET index == IF \E i \in 1 .. Len(handlers) : handlers[i] = h
               THEN CHOOSE i \in 1 .. Len(handlers) :
                      /\ handlers[i] = h
                      /\ \A j \in 1 .. i - 1 : handlers[j] # h
               ELSE 0
  IN  IF index # 0
      THEN SubSeq(handlers, 1, index - 1)
             \o SubSeq(handlers, index + 1, Len(handlers))
      ELSE handlers

RegisterHandler(h) ==
  /\ handlers' = registerHandler(h)
  /\ tasks' = [j \in 1 .. Len(tasks) |-> [tasks[j] EXCEPT !.gone = @ \ {h}]]
  /\ last' = [Step("register", FALSE) EXCEPT !.h = h]
  /\ UNCHANGED <<watching, changeStream, resumeToken, reconnectAttempts,
                 cdcOptions, streams, lastTokSent>>

UnregisterHandler(h) ==
  /\ handlers' = unregisterHandler(h)
  /\ tasks' = [j \in 1 .. Len(tasks) |-> [tasks[j] EXCEPT !.whole = @ \ {h}]]
  /\ last' = [Step("unregister", FALSE) EXCEPT !.h = h]
  /\ UNCHANGED <<watching, changeStream, resumeToken, reconnectAttempts,
                 cdcOptions, streams, lastTokSent>>

\* ---------------------------------------------------- reconnection control
\* The outcome of a run of the engine for task t: the task as it is
\* suspended again (live) or finished, and the attempt counter.
Suspended(t, attempts) ==
  [task |-> t, live |-> TRUE, reconnectAttempts |-> attempts]

Finished(t, attempts) ==
  [task |-> t, live |-> FALSE, reconnectAttempts |-> attempts]

\* reconnect() without `this.reconnectAttempts++'.
reconnectNotCounting(t, attempts) ==
  Suspended([t EXCEPT !.pc = "wait", !.idx = 0, !.elapsed = 0,
                      !.got = <<>>, !.whole = {}, !.gone = {}],
            attempts)

\* reconnect() up to its await of the timer (lines 343-350).
reconnect(t, attempts) ==
  Suspended([t EXCEPT !.pc = "wait", !.idx = 0, !.elapsed = 0,
                      !.got = <<>>, !.whole = {}, !.gone = {}],
            attempts + 1)

\* The tail of handleError and of handleClose: reconnect if enabled.
Decide(t) ==
  IF cdcOptions.autoReconnect /\ shouldReconnect(cdcOptions, reconnectAttempts)
  THEN reconnect(t, reconnectAttempts)
  ELSE Finished(t, reconnectAttempts)

\* handleError from the handler after index `from': call the next onError
\* and await it, or take the reconnect decision when the loop is over.
handleError(t, from) ==
  LET k == NextWith("onError", from)
  IN  IF k # 0
      THEN Suspended([t EXCEPT !.pc = "onError", !.idx = k,
                                 !.got = Append(@, handlers[k])],
                     reconnectAttempts)
      ELSE Decide(t)

\* handleClose after this.watching = false, from the handler after `from'.
handleClose(t, from) ==
  LET k == NextWith("onClose", from)
  IN  IF k # 0
      THEN Suspended([t EXCEPT !.pc = "onClose", !.idx = k,
                                 !.got = Append(@, handlers[k])],
                     reconnectAttempts)
      ELSE Decide(t)

\* notifyHandlers from the handler after index `from': call the next
\* onEvent and await it.
notifyHandlers(t, from) ==
  LET k == NextWith("onEvent", from)
  IN  IF k # 0
      THEN Suspended([t EXCEPT !.pc = "onEvent", !.idx = k,
                                 !.got = Append(@, handlers[k])],
                     reconnectAttempts)
      ELSE Finished(t, reconnectAttempts)

\* Task i goes on as r says; a new task (i = 0) is added last.
Continue(i, r) ==
  /\ r.reconnectAttempts <= AttemptsCap
  /\ reconnectAttempts' = r.reconnectAttempts
  /\ tasks' = IF i = 0
              THEN (IF r.live THEN Append(tasks, r.task) ELSE tasks)
              ELSE (IF r.live THEN [tasks EXCEPT ![i] = r.task] ELSE Without(i))

\* ------------------------------------------------------ signals: change
\* handleChange that does not store the token on receipt.
storeTokenSkipped(tok) == resumeToken

\* handleChange, first lines: the token a change carries is stored.
storeToken(tok) == IF tok # Null THEN tok ELSE resumeToken

\* The values of ChangeOperationType, and "unknown" for any other value of
\* change.operationType.
OperationTypes ==
  {"insert", "update", "replace", "delete", "drop", "rename", "dropDatabase",
   "invalidate", "unknown"}

\* The switch of handleChange without its REPLACE case.
hookOfNoReplace(operationType) ==
  IF operationType = "insert" THEN "handleInsert"
  ELSE IF operationType = "update" THEN "handleUpdate"
  ELSE IF operationType = "delete" THEN "handleDelete"
  ELSE "handleOther"

\* The switch of handleChange (lines 206-221).
hookOf(operationType) ==
  IF operationType = "insert" THEN "handleInsert"
  ELSE IF operationType = "update" THEN "handleUpdate"
  ELSE IF operationType = "replace" THEN "handleReplace"
  ELSE IF operationType = "delete" THEN "handleDelete"
  ELSE "handleOther"

\* handleChange that notifies the handlers before it calls the hook.
EmitChangeNotifyFirst(s, hasTok, operationType) ==
  /\ streams[s] = "open"
  /\ HasRoom
  /\ hasTok => lastTokSent < MaxTokens
  /\ LET tok == IF hasTok THEN FreshToken ELSE Null
         t == [NewTask("change", tok) EXCEPT
                 !.whole = Registered, !.gone = NotRegistered,
                 !.operationType = operationType,
                 !.hook = "none"]
         r == IF NextWith("onEvent", 0) # 0
              THEN [t EXCEPT !.pc = "onEvent", !.idx = NextWith("onEvent", 0),
                             !.got = <<handlers[NextWith("onEvent", 0)]>>]
              ELSE [t EXCEPT !.pc = "hook"]
     IN  /\ resumeToken' = IF tok # Null THEN tok ELSE resumeToken
         /\ lastTokSent' = IF hasTok THEN tok ELSE lastTokSent
         /\ tasks' = Append(tasks, r)
  /\ last' = Step("change", FALSE)
  /\ UNCHANGED <<watching, changeStream, reconnectAttempts, cdcOptions,
                 handlers, streams>>

\* The stream emits 'change': handleChange runs up to the await of the
\* operation hook.
EmitChange(s, hasTok, operationType) ==
  /\ streams[s] = "open"
  /\ HasRoom
  /\ hasTok => lastTokSent < MaxTokens
  /\ LET tok == IF hasTok THEN FreshToken ELSE Null
     IN  /\ resumeToken' = storeToken(tok)
         /\ lastTokSent' = IF hasTok THEN tok ELSE lastTokSent
         /\ tasks' = Append(tasks, [NewTask("change", tok) EXCEPT
                                      !.pc = "hook", !.whole = Registered,
                                      !.gone = NotRegistered,
                                      !.operationType = operationType,
                                      !.hook = hookOf(operationType)])
  /\ last' = Step("change", FALSE)
  /\ UNCHANGED <<watching, changeStream, reconnectAttempts, cdcOptions,
                 handlers, streams>>

\* The operation hook returned: notifyHandlers begins.
HookReturn(i) ==
  /\ tasks[i].pc = "hook"
  /\ Continue(i, notifyHandlers(tasks[i], 0))
  /\ last' = Step("hookReturn", FALSE)
  /\ UNCHANGED <<watching, changeStream, resumeToken, cdcOptions, handlers,
                 streams, lastTokSent>>

\* handleChange without its try/catch: the failure of the hook rejects the
\* promise of handleChange, which nobody awaits.
HookThrowEscaping(i) ==
  /\ tasks[i].pc = "hook"
  /\ tasks' = Without(i)
  /\ last' = Step("hookReturn", TRUE)
  /\ UNCHANGED <<watching, changeStream, resumeToken, reconnectAttempts,
                 cdcOptions, handlers, streams, lastTokSent>>

\* The operation hook threw: the catch of handleChange calls handleError.
HookThrow(i) ==
  /\ tasks[i].pc = "hook"
  /\ Continue(i, handleError([tasks[i] EXCEPT !.whole = Registered, !.gone = {}],
                            0))
  /\ last' = Step("hookReturn", TRUE)
  /\ UNCHANGED <<watching, changeStream, resumeToken, cdcOptions, handlers,
                 streams, lastTokSent>>

\* notifyHandlers without the try/catch of lines 276-280, inside the try of
\* handleChange: a throwing onEvent is caught by the catch of handleChange,
\* which calls handleError.
OnEventDoneToErrorPath(i, threw) ==
  /\ tasks[i].pc = "onEvent"
  /\ Continue(i, IF threw
                 THEN handleError([tasks[i] EXCEPT !.whole = Registered,
                                                   !.gone = {}], 0)
                 ELSE notifyHandlers(tasks[i], tasks[i].idx))
  /\ last' = Step("onEventReturn", threw)
  /\ UNCHANGED <<watching, changeStream, resumeToken, cdcOptions, handlers,
                 streams, lastTokSent>>

\* notifyHandlers without the try/catch of lines 276-280: a throwing
\* onEvent ends the loop.
OnEventDoneAborting(i, threw) ==
  /\ tasks[i].pc = "onEvent"
  /\ Continue(i, IF threw
                 THEN Finished(tasks[i], reconnectAttempts)
                 ELSE notifyHandlers(tasks[i], tasks[i].idx))
  /\ last' = Step("onEventReturn", threw)
  /\ UNCHANGED <<watching, changeStream, resumeToken, cdcOptions, handlers,
                 streams, lastTokSent>>

\* A handler's onEvent returned or threw (caught and logged): next handler.
OnEventDone(i, threw) ==
  /\ tasks[i].pc = "onEvent"
  /\ Continue(i, notifyHandlers(tasks[i], tasks[i].idx))
  /\ last' = Step("onEventReturn", threw)
  /\ UNCHANGED <<watching, changeStream, resumeToken, cdcOptions, handlers,
                 streams, lastTokSent>>

\* ------------------------------------------------------- signals: error
EmitError(s) ==
  /\ streams[s] = "open"
  /\ HasRoom
  /\ Continue(0, handleError([NewTask("error", Null) EXCEPT
                                !.whole = Registered], 0))
  /\ last' = Step("error", FALSE)
  /\ UNCHANGED <<watching, changeStream, resumeToken, cdcOptions, handlers,
                 streams, lastTokSent>>

OnErrorDone(i, threw) ==
  /\ tasks[i].pc = "onError"
  /\ Continue(i, handleError(tasks[i], tasks[i].idx))
  /\ last' = Step("onErrorReturn", threw)
  /\ UNCHANGED <<watching, changeStream, resumeToken, cdcOptions, handlers,
                 streams, lastTokSent>>

\* ------------------------------------------------------- signals: close
\* The stream emits 'close': on its own (the stream was open) or because
\* stop() closed it (the stream was closing).
closeCause(s) ==
  IF /\ streams[s] = "closing"
     /\ \E j \in 1 .. Len(tasks) : tasks[j].stream = s /\ tasks[j].stop = "caused"
  THEN "caused"
  ELSE "no"

EmitClose(s) ==
  /\ streams[s] \in {"open", "closing"}
  /\ HasRoom
  /\ streams' = [streams EXCEPT ![s] = "none"]
  /\ watching' = FALSE
  /\ LET t == [NewTask("close", Null) EXCEPT !.stop = closeCause(s),
                                               !.whole = Registered]
         r == handleClose(t, 0)
     IN  /\ r.reconnectAttempts <= AttemptsCap
         /\ reconnectAttempts' = r.reconnectAttempts
         /\ tasks' = IF r.live
                     THEN Append(Released(tasks, s), r.task)
                     ELSE Released(tasks, s)
  /\ last' = Step("close", FALSE)
  /\ UNCHANGED <<changeStream, resumeToken, cdcOptions, handlers, lastTokSent>>

OnCloseDone(i, threw) ==
  /\ tasks[i].pc = "onClose"
  /\ Continue(i, handleClose(tasks[i], tasks[i].idx))
  /\ last' = Step("onCloseReturn", threw)
  /\ UNCHANGED <<watching, changeStream, resumeToken, cdcOptions, handlers,
                 streams, lastTokSent>>

\* ------------------------------------------------------- reconnect timer
\* Time passes for every pending setTimeout.
Tick ==
  /\ \E i \in 1 .. Len(tasks) :
       tasks[i].pc = "wait" /\ tasks[i].elapsed < ReconnectDelay
  /\ tasks' = [i \in 1 .. Len(tasks) |->
                 IF tasks[i].pc = "wait" /\ tasks[i].elapsed < ReconnectDelay
                 THEN [tasks[i] EXCEPT !.elapsed = @ + 1]
                 ELSE tasks[i]]
  /\ last' = Step("tick", FALSE)
  /\ UNCHANGED <<watching, changeStream, resumeToken, reconnectAttempts,
                 cdcOptions, handlers, streams, lastTokSent>>

\* setTimeout(resolve, delay) resolves no earlier than delay.
timerElapsed(t) == t.elapsed >= ReconnectDelay

\* reconnect() that reopens with the options as they are.
resumeOptionsStale == cdcOptions

\* Lines 354-356: resume from the last known position if available.
resumeOptions ==
  IF resumeToken # Null
  THEN [cdcOptions EXCEPT !.resumeAfter = resumeToken]
  ELSE cdcOptions

\* Each call that a close signal began counts the model.watch() calls that
\* reconnect() has made since the signal, up to MaxAttemptsOpt + 1.
countOpen(ts, opened) ==
  [j \in 1 .. Len(ts) |->
     IF opened /\ ts[j].kind = "close" /\ ts[j].opens <= MaxAttemptsOpt
     THEN [ts[j] EXCEPT !.opens = @ + 1]
     ELSE ts[j]]

\* reconnect() after the timer: start(), and on failure the retry decision
\* (lines 352-368).
TimerFire(i) ==
  \E ok \in BOOLEAN :
    /\ tasks[i].pc = "wait" /\ timerElapsed(tasks[i])
    /\ ok => (watching \/ FreeStreams # {})
    /\ LET opts == resumeOptions
           r == start(opts, ok)
           again == IF r.threw /\ shouldReconnect(opts, r.reconnectAttempts)
                    THEN reconnect(tasks[i], r.reconnectAttempts)
                    ELSE Finished(tasks[i], r.reconnectAttempts)
       IN  /\ cdcOptions' = opts
           /\ watching' = r.watching
           /\ changeStream' = r.changeStream
           /\ streams' = r.streams
           /\ again.reconnectAttempts <= AttemptsCap
           /\ reconnectAttempts' = again.reconnectAttempts
           /\ tasks' = countOpen(IF again.live
                                 THEN [tasks EXCEPT ![i] = again.task]
                                 ELSE Without(i),
                                 r.opened)
           /\ last' = Opened("reconnect", r)
    /\ UNCHANGED <<resumeToken, handlers, lastTokSent>>

\* ---------------------------------------------------------- specification
Init ==
  /\ watching = FALSE
  /\ changeStream = Null
  /\ resumeToken = Null
  /\ reconnectAttempts = 0
  /\ cdcOptions \in NoStartTime
  /\ handlers = <<>>
  /\ streams = [s \in 1 .. MaxStreams |-> "none"]
  /\ lastTokSent = Null
  /\ tasks = <<>>
  /\ last = Step("init", FALSE)

Next ==
  \/ Start
  \/ Stop
  \/ \E i \in 1 .. Len(tasks) : StopResolve(i)
  \/ \E i \in 1 .. Len(tasks) : StopReject(i)
  \/ \E h \in Handlers : RegisterHandler(h)
  \/ \E h \in Handlers : UnregisterHandler(h)
  \/ \E s \in 1 .. MaxStreams, hasTok \in BOOLEAN :
       EmitChange(s, hasTok, "insert")
  \/ \E i \in 1 .. Len(tasks) : HookReturn(i)
  \/ \E i \in 1 .. Len(tasks) : HookThrow(i)
  \/ \E i \in 1 .. Len(tasks), threw \in BOOLEAN : OnEventDone(i, threw)
  \/ \E s \in 1 .. MaxStreams : EmitError(s)
  \/ \E i \in 1 .. Len(tasks), threw \in BOOLEAN : OnErrorDone(i, threw)
  \/ \E s \in 1 .. MaxStreams : EmitClose(s)
  \/ \E i \in 1 .. Len(tasks), threw \in BOOLEAN : OnCloseDone(i, threw)
  \/ Tick
  \/ \E i \in 1 .. Len(tasks) : TimerFire(i)

Spec == Init /\ [][Next]_vars

\* The engine with a store that keeps StoreStreams streams alive, without
\* handlers and changes: the life cycle of the subscriptions.
InitStreams ==
  /\ watching = FALSE
  /\ changeStream = Null
  /\ resumeToken = Null
  /\ reconnectAttempts = 0
  /\ cdcOptions \in NoStartTime
  /\ handlers = <<>>
  /\ streams = [s \in 1 .. StoreStreams |-> "none"]
  /\ lastTokSent = Null
  /\ tasks = <<>>
  /\ last = Step("init", FALSE)

NextStreams ==
  \/ Start
  \/ Stop
  \/ \E i \in 1 .. Len(tasks) : StopResolve(i)
  \/ \E i \in 1 .. Len(tasks) : StopReject(i)
  \/ \E s \in DOMAIN streams : EmitError(s)
  \/ \E s \in DOMAIN streams : EmitClose(s)
  \/ Tick
  \/ \E i \in 1 .. Len(tasks) : TimerFire(i)

SpecStreams == InitStreams /\ [][NextStreams]_vars

\* The engine with DispatchHandlers handler objects and autoReconnect off,
\* without errors and closes of the stream: the dispatch of the changes.
InitDispatch ==
  /\ watching = FALSE
  /\ changeStream = Null
  /\ resumeToken = Null
  /\ reconnectAttempts = 0
  /\ cdcOptions \in {o \in NoStartTime :
                       ~o.autoReconnect /\ o.resumeAfter = Null
                       /\ o.maxReconnectAttempts = MaxAttemptsOpt}
  /\ handlers = <<>>
  /\ streams = [s \in 1 .. MaxStreams |-> "none"]
  /\ lastTokSent = Null
  /\ tasks = <<>>
  /\ last = Step("init", FALSE)

NextDispatch ==
  \/ Start
  \/ \E h \in 1 .. DispatchHandlers : RegisterHandler(h)
  \/ \E h \in 1 .. DispatchHandlers : UnregisterHandler(h)
  \/ \E s \in DOMAIN streams, hasTok \in BOOLEAN :
       EmitChange(s, hasTok, "insert")
  \/ \E i \in 1 .. Len(tasks) : HookReturn(i)
  \/ \E i \in 1 .. Len(tasks) : HookThrow(i)
  \/ \E i \in 1 .. Len(tasks), threw \in BOOLEAN : OnEventDone(i, threw)
  \/ \E i \in 1 .. Len(tasks), threw \in BOOLEAN : OnErrorDone(i, threw)

SpecDispatch == InitDispatch /\ [][NextDispatch]_vars

\* The engine with autoReconnect on and a budget of reconnect attempts,
\* never stopped by its caller, with timers that run and fire (setTimeout,
\* line 350), whatever the store answers.
InitBudget ==
  /\ watching = FALSE
  /\ changeStream = Null
  /\ resumeToken = Null
  /\ reconnectAttempts = 0
  /\ cdcOptions \in {o \in NoStartTime :
                       o.autoReconnect /\ o.maxReconnectAttempts > 0}
  /\ handlers = <<>>
  /\ streams = [s \in 1 .. MaxStreams |-> "none"]
  /\ lastTokSent = Null
  /\ tasks = <<>>
  /\ last = Step("init", FALSE)

NextBudget ==
  \/ Start
  \/ \E s \in DOMAIN streams : EmitError(s)
  \/ \E s \in DOMAIN streams : EmitClose(s)
  \/ Tick
  \/ \E i \in 1 .. Len(tasks) : TimerFire(i)

FairBudget ==
  /\ WF_vars(Tick)
  /\ \A i \in 1 .. MaxTasks : WF_vars(i <= Len(tasks) /\ TimerFire(i))

SpecBudget == InitBudget /\ [][NextBudget]_vars /\ FairBudget

\* The engine with autoReconnect on, no handlers and no configured
\* resumeAfter, with or without a configured startAtOperationTime.
InitStartPoint ==
  /\ watching = FALSE
  /\ changeStream = Null
  /\ resumeToken = Null
  /\ reconnectAttempts = 0
  /\ cdcOptions \in {o \in applyDefaultOptions :
                       /\ o.autoReconnect
                       /\ o.maxReconnectAttempts > 0
                       /\ o.resumeAfter = Null}
  /\ handlers = <<>>
  /\ streams = [s \in 1 .. MaxStreams |-> "none"]
  /\ lastTokSent = Null
  /\ tasks = <<>>
  /\ last = Step("init", FALSE)

NextStartPoint ==
  \/ Start
  \/ \E s \in DOMAIN streams, hasTok \in BOOLEAN : EmitChange(s, hasTok, "insert")
  \/ \E i \in 1 .. Len(tasks) : HookReturn(i)
  \/ \E s \in DOMAIN streams : EmitClose(s)
  \/ Tick
  \/ \E i \in 1 .. Len(tasks) : TimerFire(i)

SpecStartPoint == InitStartPoint /\ [][NextStartPoint]_vars

\* The engine without handlers and with autoReconnect off, receiving
\* changes of every operation type: the choice of the operation hook.
InitHooks ==
  /\ watching = FALSE
  /\ changeStream = Null
  /\ resumeToken = Null
  /\ reconnectAttempts = 0
  /\ cdcOptions \in {o \in NoStartTime :
                       ~o.autoReconnect /\ o.resumeAfter = Null
                       /\ o.maxReconnectAttempts = 0}
  /\ handlers = <<>>
  /\ streams = [s \in 1 .. MaxStreams |-> "none"]
  /\ lastTokSent = Null
  /\ tasks = <<>>
  /\ last = Step("init", FALSE)

NextHooks ==
  \/ Start
  \/ \E s \in DOMAIN streams, operationType \in OperationTypes :
       EmitChange(s, FALSE, operationType)
  \/ \E i \in 1 .. Len(tasks) : HookReturn(i)
  \/ \E i \in 1 .. Len(tasks) : HookThrow(i)

SpecHooks == InitHooks /\ [][NextHooks]_vars

\* Handler objects that define onError and onClose.
SignalHandlers ==
  {h \in 1 .. (2 * DispatchHandlers - 1) : HasOnError(h) /\ HasOnClose(h)}

\* The engine with the handlers of SignalHandlers and autoReconnect on: the
\* error path and the close path with their handler loops.
InitSignals ==
  /\ watching = FALSE
  /\ changeStream = Null
  /\ resumeToken = Null
  /\ reconnectAttempts = 0
  /\ cdcOptions \in {o \in NoStartTime :
                       o.autoReconnect /\ o.resumeAfter = Null
                       /\ o.maxReconnectAttempts = MaxAttemptsOpt}
  /\ handlers = <<>>
  /\ streams = [s \in 1 .. MaxStreams |-> "none"]
  /\ lastTokSent = Null
  /\ tasks = <<>>
  /\ last = Step("init", FALSE)

NextSignals ==
  \/ Start
  \/ \E h \in SignalHandlers : RegisterHandler(h)
  \/ \E h \in SignalHandlers : UnregisterHandler(h)
  \/ \E s \in DOMAIN streams : EmitChange(s, FALSE, "insert")
  \/ \E i \in 1 .. Len(tasks) : HookThrow(i)
  \/ \E s \in DOMAIN streams : EmitError(s)
  \/ \E i \in 1 .. Len(tasks), threw \in BOOLEAN : OnErrorDone(i, threw)
  \/ \E s \in DOMAIN streams : EmitClose(s)
  \/ \E i \in 1 .. Len(tasks), threw \in BOOLEAN : OnCloseDone(i, threw)
  \/ Tick
  \/ \E i \in 1 .. Len(tasks) : TimerFire(i)

SpecSignals == InitSignals /\ [][NextSignals]_vars

\* The engine with autoReconnect on and maxReconnectAttempts = 0, never
\* stopped by its caller: every close is unsolicited.
InitRetry ==
  /\ watching = FALSE
  /\ changeStream = Null
  /\ resumeToken = Null
  /\ reconnectAttempts = 0
  /\ cdcOptions \in {o \in NoStartTime :
                       o.autoReconnect /\ o.maxReconnectAttempts = 0}
  /\ handlers = <<>>
  /\ streams = [s \in 1 .. MaxStreams |-> "none"]
  /\ lastTokSent = Null
  /\ tasks = <<>>
  /\ last = Step("init", FALSE)

NextRetry ==
  \/ Start
  \/ \E s \in DOMAIN streams, hasTok \in BOOLEAN :
       EmitChange(s, hasTok, "insert")
  \/ \E i \in 1 .. Len(tasks) : HookReturn(i)
  \/ \E s \in DOMAIN streams : EmitError(s)
  \/ \E s \in DOMAIN streams : EmitClose(s)
  \/ Tick
  \/ \E i \in 1 .. Len(tasks) : TimerFire(i)

\* Timers run and fire (setTimeout, line 350); the store accepts an open
\* call again and again.
FairRetry ==
  /\ WF_vars(Tick)
  /\ \A i \in 1 .. MaxTasks :
       SF_vars(i <= Len(tasks) /\ TimerFire(i) /\ ~last'.threw)

SpecRetry == InitRetry /\ [][NextRetry]_vars /\ FairRetry

\* ------------------------------------------------------------- properties
\* C1: every open call made by the reconnect path once a notification with
\* a token has been received asks for resumeAfter equal to the resume
\* position stored at that moment, which is the token of the last
\* notification that carried one; never an empty, configured or older one.
C1_ReconnectResumesFromStored ==
  (last.op = "reconnect" /\ last.called = "watch" /\ lastTokSent # Null)
    => (last.resumeAfter = getResumeToken /\ last.resumeAfter = lastTokSent)

\* A reconnect reopened after the second token, with the second token.
C1_Witness ==
  /\ last.op = "reconnect" /\ last.called = "watch" /\ ~last.threw
  /\ lastTokSent = MaxTokens
  /\ last.resumeAfter = MaxTokens

\* C2: an intentional stop never triggers a reconnect: the processing of
\* the close signal that stop() made the stream emit by closing it issues
\* no open call, as long as start() has not been called again.
C2_StopNeverReconnects ==
  [][\A i \in 1 .. Len(tasks) :
       (tasks[i].kind = "close" /\ tasks[i].stop = "caused" /\ TimerFire(i))
         => last'.called # "watch"]_vars

\* C3: stop() called while a reconnect wait is pending cancels the retry:
\* that wait issues no open call afterwards, as long as start() has not
\* been called again.
C3_StopCancelsPendingRetry ==
  [][\A i \in 1 .. Len(tasks) :
       (tasks[i].stop = "during" /\ TimerFire(i))
         => last'.called # "watch"]_vars

\* C4: the stored resume position is the token of the latest notification
\* that carried one, from the step that receives it (before its hook or any
\* onEvent runs) and through everything that follows, a throwing hook or
\* handler included: getResumeToken() after processing notification i
\* returns i's token.
C4_ResumeTokenIsLatest ==
  getResumeToken = lastTokSent

\* The second notification has been processed, its handler threw, and the
\* stored position is its token.
C4_Witness ==
  /\ tasks = <<>>
  /\ last.op = "onEventReturn" /\ last.threw
  /\ lastTokSent = MaxTokens
  /\ getResumeToken = MaxTokens

\* C5: whenever a handler's onEvent for a notification is running, the
\* resume position it reads is the token of that notification, also when
\* the next notification is emitted while this one is still in dispatch.
C5_HandlerReadsOwnToken ==
  \A i \in 1 .. Len(tasks) :
    (tasks[i].pc = "onEvent" /\ tasks[i].tok # Null)
      => getResumeToken = tasks[i].tok

\* C6: start() on an engine that is watching makes no open call, does not
\* throw, and leaves isWatching(), the attempt counter, the resume position
\* and the subscription as they were.
C6_StartWhileWatching ==
  [][(last'.op = "start" /\ isWatching)
       => /\ last'.called = "none"
          /\ ~last'.threw
          /\ UNCHANGED <<watching, reconnectAttempts, resumeToken,
                         changeStream, streams>>]_vars

\* start() was called during the reconnect wait that follows an error: the
\* engine was watching and the attempt counter was not zero.
C6_Witness ==
  /\ last.op = "start" /\ last.called = "none" /\ ~last.threw
  /\ isWatching
  /\ reconnectAttempts > 0

\* C7: stop() on an engine that is not watching makes no close call, does
\* not throw, and leaves the engine's state unchanged.
C7_StopWhileNotWatching ==
  [][(last'.op = "stop" /\ ~isWatching)
       => /\ last'.called = "none"
          /\ ~last'.threw
          /\ Len(tasks') = Len(tasks)
          /\ UNCHANGED <<watching, changeStream, resumeToken,
                         reconnectAttempts, cdcOptions, handlers,
                         streams>>]_vars

\* stop() was called on an engine that an unsolicited close had left not
\* watching, with its reconnect wait pending and its subscription reference
\* still set.
C7_Witness ==
  /\ last.op = "stop" /\ last.called = "none" /\ ~last.threw
  /\ ~isWatching
  /\ changeStream # Null
  /\ Len(tasks) > 0

\* C8: with autoReconnect = false, an error signal of the engine's stream
\* received while watching leaves the engine stopped: once handleError has
\* returned, isWatching() is false (and no open call was made).
C8_ErrorStopsWithoutReconnect ==
  [][(/\ last'.op = "error"
      /\ isWatching /\ changeStream # Null /\ streams[changeStream] = "open"
      /\ ~cdcOptions.autoReconnect
      /\ Len(tasks') = Len(tasks))
       => (~isWatching' /\ last'.called # "watch")]_vars

\* C9: after an error signal received while watching, with autoReconnect
\* and attempts left, the reconnect that follows the wait issues an open
\* call.  Stated for an error whose processing is the only call in flight
\* and that no stop() has interrupted.
C9_ErrorIsReopened ==
  [][\A i \in 1 .. Len(tasks) :
       (/\ tasks[i].kind = "error" /\ tasks[i].stop = "no"
        /\ Len(tasks) = 1
        /\ TimerFire(i))
         => last'.called = "watch"]_vars

\* C10: with autoReconnect = true and maxReconnectAttempts = 1, an
\* unsolicited close of the engine's stream received while watching
\* triggers a reopen: its processing enters the reconnect wait rather than
\* ending at once.  Stated for a close signal received while no other call
\* is in flight and whose decision is taken in the step that receives it
\* (no registered handler has onClose).
C10_CloseTriggersReopen ==
  [][(/\ last'.op = "close"
      /\ tasks = <<>>
      /\ isWatching /\ changeStream # Null
      /\ streams[changeStream] = "open" /\ streams'[changeStream] = "none"
      /\ cdcOptions.autoReconnect /\ cdcOptions.maxReconnectAttempts = 1
      /\ NextWith("onClose", 0) = 0)
       => (/\ Len(tasks') = Len(tasks) + 1
           /\ tasks'[Len(tasks')].pc = "wait")]_vars

\* C11: at every moment at most one subscription opened by the engine is
\* open, that is opened and neither closed by the engine (stop() called
\* close() on it) nor closed by the store.
C11_AtMostOneOpenStream ==
  Cardinality({s \in DOMAIN streams : streams[s] = "open"}) <= 1

\* C12: at most one notification is in dispatch (in its operation hook or
\* in the onEvent calls of the handlers) at any time.
C12_OneDispatchAtATime ==
  Cardinality({i \in 1 .. Len(tasks) :
                 tasks[i].kind = "change" /\ tasks[i].pc \in {"hook", "onEvent"}})
    <= 1

\* C13: every handler sees the notifications in the order of delivery: a
\* handler's onEvent is not called for a notification while a notification
\* delivered after it has already had that handler's onEvent called.
C13_HandlersSeeDeliveryOrder ==
  [][\A i, j \in 1 .. Len(tasks) :
       (/\ i < j
        /\ Len(tasks') = Len(tasks)
        /\ tasks[i].kind = "change" /\ tasks[j].kind = "change"
        /\ tasks[j].pc = "onEvent"
        /\ tasks'[i].pc = "onEvent"
        /\ Len(tasks'[i].got) = Len(tasks[i].got) + 1)
         => \A k \in 1 .. Len(tasks[j].got) :
              tasks[j].got[k] # tasks'[i].got[Len(tasks'[i].got)]]_vars

\* C14: for each notification, every handler that stays registered from
\* its arrival to the end of its dispatch has onEvent invoked exactly once:
\* when the dispatch ends (the handler loop is over, or the hook threw),
\* each such handler is once among the handlers called.
C14_EveryHandlerOnce ==
  [][\A i \in 1 .. Len(tasks) :
       (/\ tasks[i].kind = "change"
        /\ \/ HookThrow(i)
           \/ /\ Len(tasks') < Len(tasks)
              /\ HookReturn(i) \/ \E threw \in BOOLEAN : OnEventDone(i, threw))
         => \A h \in tasks[i].whole :
              Cardinality({k \in 1 .. Len(tasks[i].got) : tasks[i].got[k] = h})
                = 1]_vars

C16_UnregisterKeepsRemaining ==
  [][last'.op = "unregister"
       => \A i \in 1 .. Len(tasks) :
            tasks[i].pc = "onEvent"
              => {handlers'[k] : k \in (tasks[i].idx + 1) .. Len(handlers')}
                   = {handlers[k] : k \in (tasks[i].idx + 1) .. Len(handlers)}
                       \ {last'.h}]_vars

\* C17: a handler whose onEvent throws does not keep the handlers after it
\* from receiving the event, and the failure stays inside the dispatch: the
\* loop goes on with the next handler of the registry (or the dispatch
\* ends normally), no call enters the error path, and the engine's
\* watching flag and attempt counter are untouched.
C17_ThrowingHandlerIsolated ==
  [][(last'.op = "onEventReturn" /\ last'.threw)
       => /\ UNCHANGED <<watching, reconnectAttempts, changeStream, streams>>
          /\ Cardinality({i \in 1 .. Len(tasks') :
                            tasks'[i].pc \in {"onError", "wait"}})
               = Cardinality({i \in 1 .. Len(tasks) :
                                tasks[i].pc \in {"onError", "wait"}})
          /\ \E i \in 1 .. Len(tasks) :
               /\ tasks[i].pc = "onEvent"
               /\ LET k == NextWith("onEvent", tasks[i].idx)
                  IN  IF k = 0
                      THEN tasks' = Without(i)
                      ELSE tasks' = [tasks EXCEPT
                                       ![i] = [@ EXCEPT
                                                 !.idx = k,
                                                 !.got = Append(@, handlers[k])]]]_vars

\* The first handler's onEvent threw and the second handler has been
\* called with the same event.
C17_Witness ==
  /\ last.op = "onEventReturn" /\ last.threw
  /\ \E i \in 1 .. Len(tasks) :
       tasks[i].pc = "onEvent" /\ Len(tasks[i].got) = DispatchHandlers

\* C18: when model.watch() fails inside a start() called by the caller,
\* the error is thrown to that caller, the engine stays Stopped
\* (isWatching() false) and nothing is scheduled: no call enters a
\* reconnect wait and the attempt counter is unchanged, whatever
\* autoReconnect is.
C18_FailedStartPropagates ==
  [][(last'.op = "start" /\ last'.called = "watch" /\ streams' = streams)
       => /\ last'.threw
          /\ ~isWatching'
          /\ changeStream' = changeStream
          /\ reconnectAttempts' = reconnectAttempts
          /\ Len(tasks') = Len(tasks)
          /\ \A j \in 1 .. Len(tasks) :
               tasks'[j].pc = tasks[j].pc /\ tasks'[j].kind = tasks[j].kind]_vars

\* start() has just thrown with autoReconnect enabled and attempts left:
\* the engine is Stopped and no call is pending.
C18_Witness ==
  /\ last.op = "start" /\ last.called = "watch" /\ last.threw
  /\ cdcOptions.autoReconnect
  /\ reconnectAttempts < cdcOptions.maxReconnectAttempts
  /\ ~isWatching
  /\ tasks = <<>>

\* C19: with autoReconnect enabled and maxReconnectAttempts = N > 0, when
\* every reopen after an unsolicited close fails, the engine gives up after
\* exactly N model.watch() calls and stays Stopped: at the failed reopen
\* that ends the last pending call of the engine, the reconnects have
\* called model.watch() N times since the close, and isWatching() is false.
C19_GivesUpAfterNOpens ==
  [][\A i \in 1 .. Len(tasks) :
       (/\ cdcOptions.autoReconnect
        /\ cdcOptions.maxReconnectAttempts > 0
        /\ Len(tasks) = 1
        /\ tasks[i].kind = "close" /\ tasks[i].stop = "no"
        /\ TimerFire(i)
        /\ last'.threw
        /\ tasks' = <<>>)
         => /\ tasks[i].opens + 1 = cdcOptions.maxReconnectAttempts
            /\ ~isWatching']_vars

\* C20: whenever the engine is Watching and no call is in a reconnect
\* wait, the attempt counter is zero.
C20_WatchingMeansCounterZero ==
  (isWatching /\ \A i \in 1 .. Len(tasks) : tasks[i].pc # "wait")
    => reconnectAttempts = 0

\* C21: stop() (onModuleDestroy() only awaits stop()) on a Watching engine
\* calls close() on the stream the engine holds, and when the call returns
\* normally isWatching() is false and this.changeStream is empty.
C21_StopClosesAndReleases ==
  [][/\ (last'.op = "stop" /\ isWatching)
          => /\ changeStream # Null
             /\ last'.called = "close"
             /\ Len(tasks') = Len(tasks) + 1
             /\ tasks'[Len(tasks')].pc = "closing"
             /\ tasks'[Len(tasks')].stream = changeStream
             /\ streams'[changeStream] # "open"
     /\ (last'.op = "stopReturn" /\ ~last'.threw)
          => ~isWatching' /\ changeStream' = Null]_vars

\* A stop() that closed the stream of a Watching engine has returned: the
\* stream is gone, the engine is Stopped and holds no stream.
C21_Witness ==
  /\ last.op = "stopReturn" /\ ~last.threw
  /\ ~isWatching /\ changeStream = Null
  /\ \A s \in DOMAIN streams : streams[s] = "none"
  /\ tasks = <<>>

\* C22: on an error (resp. close) signal every handler that defines
\* onError (resp. onClose) and stays registered while the signal is
\* processed is called exactly once before the recovery decision, and so
\* before any reopen for the signal: when the handler loop of the signal
\* ends, each such handler is once among the handlers called.  A callback
\* that throws changes nothing: the loop goes on as after one that returns.
C22_SignalReachesEveryHandler ==
  [][\A i \in 1 .. Len(tasks) :
       /\ (/\ tasks[i].kind \in {"error", "close"}
           /\ \E threw \in BOOLEAN : OnErrorDone(i, threw) \/ OnCloseDone(i, threw)
           /\ \/ Len(tasks') < Len(tasks)
              \/ tasks'[i].pc = "wait")
            => \A h \in tasks[i].whole :
                 Has(h, tasks[i].pc)
                   => Cardinality({k \in 1 .. Len(tasks[i].got) :
                                     tasks[i].got[k] = h}) = 1
       /\ (/\ tasks[i].pc \in {"onError", "onClose"}
           /\ last'.op \in {"onErrorReturn", "onCloseReturn"}
           /\ last'.threw
           /\ Len(tasks') = Len(tasks)
           /\ tasks'[i] # tasks[i])
            => tasks'[i].pc \in {"onError", "onClose", "wait"}]_vars

\* C23: with autoReconnect on and maxReconnectAttempts = 0 the budget is
\* unlimited.  After an unsolicited close the engine never gives up: the
\* close signal and every failed reopen leave a reconnect pending.  And as
\* the store accepts an open call again, the engine is Watching again.
C23_UnlimitedRetries ==
  /\ [][(\/ last'.op = "close"
         \/ last'.op = "reconnect" /\ last'.threw)
          => \E i \in 1 .. Len(tasks') : tasks'[i].pc = "wait"]_vars
  /\ (last.op = "close") ~> isWatching

\* After a close the reopen has failed more than once and a further
\* reconnect is pending.
C23_Witness ==
  /\ cdcOptions.maxReconnectAttempts = 0
  /\ ~isWatching
  /\ last.op = "reconnect" /\ last.threw
  /\ \E i \in 1 .. Len(tasks) :
       tasks[i].kind = "close" /\ tasks[i].pc = "wait" /\ tasks[i].opens >= 2

\* C24: when start() is called after a prior session has recorded a resume
\* position, the model.watch() request carries resumeAfter equal to that
\* position.
C24_StartResumesFromToken ==
  [][(last'.op = "start" /\ last'.called = "watch" /\ resumeToken # Null)
       => last'.resumeAfter = resumeToken]_vars

\* C25: each notification goes to one operation hook, selected by its
\* operationType: insert, update, replace and delete to their own hook,
\* every other type to handleOther.
C25_OneHookByOperationType ==
  \A i \in 1 .. Len(tasks) :
    tasks[i].kind = "change" =>
      LET op == tasks[i].operationType
          hook == tasks[i].hook
      IN  /\ hook \in {"handleInsert", "handleUpdate", "handleReplace",
                       "handleDelete", "handleOther"}
          /\ hook = "handleInsert" <=> op = "insert"
          /\ hook = "handleUpdate" <=> op = "update"
          /\ hook = "handleReplace" <=> op = "replace"
          /\ hook = "handleDelete" <=> op = "delete"
          /\ hook = "handleOther"
               <=> op \in {"drop", "rename", "dropDatabase", "invalidate",
                           "unknown"}

\* A replace and an invalidate are in their hooks: handleReplace and
\* handleOther.
C25_Witness ==
  \E i, j \in 1 .. Len(tasks) :
    /\ tasks[i].pc = "hook" /\ tasks[i].operationType = "replace"
    /\ tasks[i].hook = "handleReplace"
    /\ tasks[j].pc = "hook" /\ tasks[j].operationType = "invalidate"
    /\ tasks[j].hook = "handleOther"

\* C26: no failure met while a change, error or close signal is processed
\* leaves the engine.  After a hook that threw, a handler callback that
\* threw or a reopen that failed, the processing of the signal goes on
\* where the catch leads: to the next handler of the loop, to the error
\* path, to the reconnect decision, or to its normal end when nothing is
\* left to do.
C26_FailuresStayInside ==
  [][(/\ last'.threw
      /\ last'.op \in {"hookReturn", "onEventReturn", "onErrorReturn",
                       "onCloseReturn", "reconnect"})
       => \E i \in 1 .. Len(tasks) :
            LET t == tasks[i]
                op == last'.op
                member == IF op = "onEventReturn" THEN "onEvent"
                          ELSE IF op = "onCloseReturn" THEN "onClose"
                          ELSE "onError"
                k == NextWith(member, IF op = "hookReturn" THEN 0 ELSE t.idx)
                ended == /\ Len(tasks') = Len(tasks) - 1
                         /\ reconnectAttempts' = reconnectAttempts
                waits == /\ Len(tasks') = Len(tasks)
                         /\ tasks'[i].pc = "wait"
                         /\ reconnectAttempts' = reconnectAttempts + 1
            IN  /\ t.pc = IF op = "hookReturn" THEN "hook"
                          ELSE IF op = "reconnect" THEN "wait"
                          ELSE member
                /\ IF op = "reconnect"
                   THEN IF shouldReconnect(cdcOptions, reconnectAttempts)
                        THEN waits ELSE ended
                   ELSE IF k # 0
                   THEN /\ Len(tasks') = Len(tasks)
                        /\ tasks'[i].pc = member /\ tasks'[i].idx = k
                   ELSE IF member = "onEvent"
                   THEN ended
                   ELSE IF /\ cdcOptions.autoReconnect
                           /\ shouldReconnect(cdcOptions, reconnectAttempts)
                   THEN waits ELSE ended]_vars

\* The hook of a change threw, then the handler's onError threw as well,
\* and the processing has gone on to the reconnect wait.
C26_Witness ==
  /\ last.op = "onErrorReturn" /\ last.threw
  /\ \E i \in 1 .. Len(tasks) :
       tasks[i].kind = "change" /\ tasks[i].pc = "wait"

\* C27: when the operation hook of a notification throws, onEvent is still
\* called on the registered handlers, the first of the registry first.
C27_HandlersNotifiedAfterFailedHook ==
  [][(last'.op = "hookReturn" /\ last'.threw /\ NextWith("onEvent", 0) # 0)
       => \E i \in 1 .. Len(tasks) :
            /\ tasks[i].pc = "hook"
            /\ Len(tasks') = Len(tasks)
            /\ tasks'[i].pc = "onEvent"
            /\ tasks'[i].got = <<handlers[NextWith("onEvent", 0)]>>]_vars

\* C28: within the dispatch of one notification the handlers receive
\* onEvent in registration order (the order of the registry, to which
\* registerHandler appends), the first one when the operation hook has
\* returned and each further one when the onEvent before it has completed.
C28_OnEventInOrderOneAtATime ==
  [][/\ last'.op = "register"
          => handlers' \in {handlers, Append(handlers, last'.h)}
     /\ Len(tasks') = Len(tasks) + 1 => tasks'[Len(tasks')].pc # "onEvent"
     /\ Len(tasks') = Len(tasks) =>
          \A i \in 1 .. Len(tasks) :
            (/\ tasks'[i].pc = "onEvent"
             /\ tasks'[i].got # tasks[i].got)
              => /\ tasks'[i].got
                      = Append(tasks[i].got, handlers[tasks'[i].idx])
                 /\ tasks'[i].idx > tasks[i].idx
                 /\ \A p \in (tasks'[i].idx + 1) .. Len(handlers) :
                      handlers[p] \in tasks[i].whole
                        => \A k \in 1 .. Len(tasks[i].got) :
                             tasks[i].got[k] # handlers[p]
                 /\ IF tasks[i].got = <<>>
                    THEN /\ tasks[i].pc = "hook"
                         /\ last'.op = "hookReturn" /\ ~last'.threw
                    ELSE /\ tasks[i].pc = "onEvent"
                         /\ last'.op = "onEventReturn"]_vars

\* Handler 2 was registered before handler 1; in one dispatch handler 2's
\* onEvent has completed and handler 1's onEvent is running.
C28_Witness ==
  /\ handlers = <<2, 1>>
  /\ last.op = "onEventReturn"
  /\ \E i \in 1 .. Len(tasks) :
       /\ tasks[i].pc = "onEvent" /\ tasks[i].got = <<2, 1>>
       /\ tasks[i].whole = {1, 2}

\* C29: a failure thrown by an operation hook goes into the error path of
\* an error signal.  The step of the throw does what handleError does on a
\* signal: the first handler that defines onError is called, or without
\* one the reconnect decision is taken.  And when the onError loop of the
\* failed notification ends, every handler that defines onError and has
\* stayed registered since the throw has been called exactly once.
C29_HookFailureTakesErrorPath ==
  [][/\ (last'.op = "hookReturn" /\ last'.threw)
          => \E i \in 1 .. Len(tasks) :
               LET k == NextWith("onError", 0)
               IN  /\ tasks[i].pc = "hook"
                   /\ IF k # 0
                      THEN /\ Len(tasks') = Len(tasks)
                           /\ tasks'[i].pc = "onError"
                           /\ tasks'[i].got = <<handlers[k]>>
                           /\ reconnectAttempts' = reconnectAttempts
                      ELSE IF /\ cdcOptions.autoReconnect
                              /\ shouldReconnect(cdcOptions, reconnectAttempts)
                      THEN /\ Len(tasks') = Len(tasks)
                           /\ tasks'[i].pc = "wait"
                           /\ reconnectAttempts' = reconnectAttempts + 1
                      ELSE /\ Len(tasks') = Len(tasks) - 1
                           /\ reconnectAttempts' = reconnectAttempts
     /\ \A i \in 1 .. Len(tasks) :
          (/\ tasks[i].kind = "change" /\ tasks[i].pc = "onError"
           /\ last'.op = "onErrorReturn"
           /\ \E threw \in BOOLEAN : OnErrorDone(i, threw)
           /\ \/ Len(tasks') < Len(tasks)
              \/ tasks'[i].pc = "wait")
            => \A h \in tasks[i].whole :
                 HasOnError(h)
                   => Cardinality({k \in 1 .. Len(tasks[i].got) :
                                     tasks[i].got[k] = h}) = 1]_vars

\* C30: from the moment a reconnect wait begins until its reopen call, no
\* notification is dispatched: while a call is in its reconnect wait, no
\* change enters its operation hook and no handler's onEvent is called.
C30_NoDispatchDuringWait ==
  [][(\E j \in 1 .. Len(tasks) : tasks[j].pc = "wait")
       => /\ last'.op # "change"
          /\ Len(tasks') = Len(tasks) =>
               \A i \in 1 .. Len(tasks) :
                 tasks'[i].pc = "onEvent" => tasks'[i].got = tasks[i].got]_vars

\* C31: the configuration is immutable after construction: no step of the
\* engine changes an option value, the configured resumeAfter included.
C31_OptionsNeverChange ==
  [][cdcOptions' = cdcOptions]_vars

\* C32: no public operation other than start() surfaces an error to its
\* caller: stop() (and onModuleDestroy()), registerHandler() and
\* unregisterHandler() return normally, also when the close() call of
\* stop() fails.
C32_OnlyStartThrows ==
  [][last'.op \in {"stop", "stopReturn", "register", "unregister"}
       => ~last'.threw]_vars

\* C33: when maxReconnectAttempts is not zero, the attempt counter never
\* exceeds it, also when an error signal and a close signal each began a
\* retry chain.
C33_CounterWithinBudget ==
  cdcOptions.maxReconnectAttempts # 0
    => reconnectAttempts <= cdcOptions.maxReconnectAttempts

\* An error signal and a close signal each have a reconnect pending and
\* the counter stands at the budget.
C33_Witness ==
  /\ cdcOptions.maxReconnectAttempts = MaxAttemptsOpt
  /\ reconnectAttempts = cdcOptions.maxReconnectAttempts
  /\ \E i, j \in 1 .. Len(tasks) :
       /\ tasks[i].kind = "error" /\ tasks[i].pc = "wait"
       /\ tasks[j].kind = "close" /\ tasks[j].pc = "wait"

\* C34: whenever isWatching() is false, no stream opened by the engine is
\* still open and no change is dispatched: no change enters its operation
\* hook and no handler's onEvent is called.
C34_StoppedMeansQuiet ==
  [][~isWatching'
       => /\ \A s \in DOMAIN streams : streams'[s] # "open"
          /\ last'.op # "change"
          /\ Len(tasks') = Len(tasks) =>
               \A i \in 1 .. Len(tasks) :
                 tasks'[i].pc = "onEvent" => tasks'[i].got = tasks[i].got]_vars

\* C35: a handler's onEvent failure has no effect on the engine's state:
\* the step of the failure calls no handler's onError, leaves isWatching(),
\* the attempt counter and every other field as they are, and puts no call
\* into a reconnect wait.
C35_OnEventFailureChangesNothing ==
  [][(last'.op = "onEventReturn" /\ last'.threw)
       => /\ UNCHANGED <<watching, changeStream, resumeToken,
                         reconnectAttempts, cdcOptions, handlers, streams,
                         lastTokSent>>
          /\ \A i \in 1 .. Len(tasks') : tasks'[i].pc \in {"onError", "wait"}
               => \E j \in 1 .. Len(tasks) : tasks[j] = tasks'[i]
          /\ Cardinality({i \in 1 .. Len(tasks') :
                            tasks'[i].pc \in {"onError", "wait"}})
               = Cardinality({j \in 1 .. Len(tasks) :
                                tasks[j].pc \in {"onError", "wait"}})]_vars

\* The only handler, which defines onError, threw in onEvent with
\* autoReconnect on: the dispatch is over, the engine is Watching with the
\* counter at zero and nothing is pending.
C35_Witness ==
  /\ last.op = "onEventReturn" /\ last.threw
  /\ cdcOptions.autoReconnect
  /\ handlers = <<1>> /\ HasOnError(1)
  /\ isWatching /\ reconnectAttempts = 0
  /\ tasks = <<>>

\* C36: the resume position changes only when a notification that carries
\* a token is received, and then to that token; every other step leaves it
\* as it is, and once set it never returns to empty.
C36_ResumeTokenOnlyFromChanges ==
  [][/\ resumeToken' # resumeToken
          => /\ last'.op = "change"
             /\ Len(tasks') = Len(tasks) + 1
             /\ tasks'[Len(tasks')].tok # Null
             /\ resumeToken' = tasks'[Len(tasks')].tok
     /\ (last'.op = "change" /\ tasks'[Len(tasks')].tok = Null)
          => resumeToken' = resumeToken
     /\ resumeToken # Null => resumeToken' # Null]_vars

\* A token was recorded, the engine was stopped, and the token is kept.
C36_Witness ==
  /\ last.op = "stopReturn" /\ ~last.threw
  /\ ~isWatching
  /\ getResumeToken # Null

\* C37: with autoReconnect on and a budget that is not zero, every retry
\* sequence that an unsolicited close began comes to an end: once a close
\* has put a reconnect into its wait, the engine is eventually Watching, or
\* Stopped with no reconnect pending, whatever the store answers.
C37_RetriesTerminate ==
  (\E i \in 1 .. Len(tasks) : tasks[i].kind = "close" /\ tasks[i].pc = "wait")
    ~> (isWatching \/ \A i \in 1 .. Len(tasks) : tasks[i].pc # "wait")

\* The retries of a close have used up the budget: the last reopen failed,
\* the engine is Stopped and nothing is pending.
C37_Witness ==
  /\ last.op = "reconnect" /\ last.threw
  /\ reconnectAttempts = cdcOptions.maxReconnectAttempts
  /\ cdcOptions.maxReconnectAttempts = MaxAttemptsOpt
  /\ ~isWatching
  /\ tasks = <<>>

\* C38: no model.watch() request carries both resumeAfter and
\* startAtOperationTime: a reconnect that resumes from a recorded token
\* sends that token as the only starting point, even when a starting
\* timestamp was configured.
C38_OneStartingPoint ==
  last.called = "watch"
    => (last.resumeAfter = Null \/ last.startAtOperationTime = Null)

\* C39: the registry never holds a handler twice; registerHandler of a
\* handler that is registered leaves the registry as it is, and so does
\* unregisterHandler of a handler that is not registered.
C39_RegistryIsASet ==
  [][/\ \A i, j \in 1 .. Len(handlers') :
          handlers'[i] = handlers'[j] => i = j
     /\ (last'.op = "register" /\ last'.h \in Registered)
          => handlers' = handlers
     /\ (last'.op = "unregister" /\ last'.h \notin Registered)
          => handlers' = handlers]_vars

\* The registry is full and the handler registered last is its first
\* element: the call found the handler registered and added nothing.
C39_Witness ==
  /\ last.op = "register"
  /\ Len(handlers) = DispatchHandlers
  /\ last.h = handlers[1]

====
